---- MODULE Spec2Model ----
(***************************************************************************)
(* tantivy-log: structured records are flattened into (path, value)        *)
(* fields, fingerprinted by their (path, type) sequence, routed to one     *)
(* tantivy index per fingerprint, and searched across all indexes with a   *)
(* single bounded top-K collector.                                         *)
(*                                                                         *)
(* Strings are sequences of bytes, so that path joining, ordinal           *)
(* formatting and hashing are computed the way the code computes them.     *)
(* An Option is a sequence of length 0 (None) or 1 (Some).                 *)
(***************************************************************************)
EXTENDS Integers, Sequences, FiniteSets, TLC

VARIABLES
  \* Doc::build of one record (schema.rs)
  ser,        \* the FieldCollector
  panicked,   \* an assert!, expect or unimplemented! has aborted the call
  doc,        \* Option of the Doc that Doc::build returned
  stack,      \* open aggregates of the record: [kind, path, n, key]
  nodes,      \* values of the record visited so far
  want,       \* the fields expected so far: << path, value >>
  plain,      \* the record is, so far, nested structs whose leaves are
              \* scalars, tuples of scalars and sequences of scalars
  \* Doc::build of two records in turn (schema.rs)
  fieldsA,    \* ser.fields of the first record
  docA,       \* Option of the first Doc
  fieldsB,    \* Option of ser.fields of the second record
  docB,       \* Option of the second Doc
  \* Searcher::search over a fixed registry (searcher.rs)
  hits,       \* per index, the scores of the documents the query matches,
              \* in the order the engine offers them
  collector,  \* the MultiIndexCollector: [limit, heap, segment_id]
  spc,        \* where search is: "idle", "visiting", "done"
  remaining,  \* indexes of the snapshot not yet visited
  current,    \* Option of the index being queried: [index, pos]
  lookup,     \* keys of the lookup map
  result,     \* what top_docs returned
  rendered,   \* the items of the iterator that search returned
  failed,     \* positions of the hits whose searcher.doc returned Err
  offered,    \* every hit offered to the collector by this search
  previous,   \* Option of the search before this one: [limit, result]
  searches,   \* search calls so far
  \* Indexers and a Searcher sharing one Store (store.rs, index.rs)
  registry,     \* Store.state: fingerprint -> Option of the Index
  registryLock, \* Option of the thread that holds the Mutex of Store.state
  engine,       \* every Index created so far: [for, schema, committed, writerHeld]
  writers,      \* Indexer.writers, per Indexer: fingerprint -> Option of a writer
  call,         \* the index() call of each Indexer: [pc, doc, hit, writer, ops]
  acked,        \* the documents whose index() call returned Ok
  calls,        \* index() calls so far
  inserted,     \* per fingerprint, the Indexes inserted into Store.state
  srch,         \* the search() call of the Searcher
  lookups,      \* search() calls so far
  \* Doc::indexable of a Doc and of a second Doc of the same shape, and
  \* the first document as the engine renders it (schema.rs, searcher.rs)
  docFields,      \* Doc.fields of the first Doc
  indexable,      \* Option of what Doc::indexable made of it
  otherFields,    \* Option of Doc.fields of the second Doc
  otherIndexable, \* Option of what Doc::indexable made of it
  json,           \* Option of to_json of the first document, as stored
  \* threads that log through one Logger (logger.rs)
  indexer,        \* Logger.indexer, the Mutex: [holder, poisoned]
  thread,         \* where each logging thread is in Logger::log
  logs            \* Logger::log calls so far

flattenVars == << ser, panicked, doc, stack, nodes, want, plain >>
fingerprintVars == << fieldsA, docA, fieldsB, docB >>
searchVars ==
  << hits, collector, spc, remaining, current, lookup, result, rendered, failed,
     offered, previous, searches >>
storeVars ==
  << registry, registryLock, engine, writers, call, acked, calls, inserted, srch, lookups >>
indexableVars == << docFields, indexable, otherFields, otherIndexable, json >>
loggerVars == << indexer, thread, logs >>
vars == << flattenVars, fingerprintVars, searchVars, storeVars, indexableVars, loggerVars >>

(***************************************************************************)
(* Bounds of the model.                                                    *)
(***************************************************************************)
\* values (scalars and aggregates) that one serialized record may hold
MaxNodes == 5
\* fields of a flattened field list handed to the fingerprint
MaxLen == 3

None == << >>
Some(x) == << x >>

(***************************************************************************)
(* std::collections::hash_map::DefaultHasher: SipHash-1-3 with the keys    *)
(* (0, 0).  A 64-bit word is a tuple of 8 bytes, least significant first.  *)
(***************************************************************************)
NibXor ==
  << << 0, 1, 2, 3, 4, 5, 6, 7, 8, 9, 10, 11, 12, 13, 14, 15 >>,
     << 1, 0, 3, 2, 5, 4, 7, 6, 9, 8, 11, 10, 13, 12, 15, 14 >>,
     << 2, 3, 0, 1, 6, 7, 4, 5, 10, 11, 8, 9, 14, 15, 12, 13 >>,
     << 3, 2, 1, 0, 7, 6, 5, 4, 11, 10, 9, 8, 15, 14, 13, 12 >>,
     << 4, 5, 6, 7, 0, 1, 2, 3, 12, 13, 14, 15, 8, 9, 10, 11 >>,
     << 5, 4, 7, 6, 1, 0, 3, 2, 13, 12, 15, 14, 9, 8, 11, 10 >>,
     << 6, 7, 4, 5, 2, 3, 0, 1, 14, 15, 12, 13, 10, 11, 8, 9 >>,
     << 7, 6, 5, 4, 3, 2, 1, 0, 15, 14, 13, 12, 11, 10, 9, 8 >>,
     << 8, 9, 10, 11, 12, 13, 14, 15, 0, 1, 2, 3, 4, 5, 6, 7 >>,
     << 9, 8, 11, 10, 13, 12, 15, 14, 1, 0, 3, 2, 5, 4, 7, 6 >>,
     << 10, 11, 8, 9, 14, 15, 12, 13, 2, 3, 0, 1, 6, 7, 4, 5 >>,
     << 11, 10, 9, 8, 15, 14, 13, 12, 3, 2, 1, 0, 7, 6, 5, 4 >>,
     << 12, 13, 14, 15, 8, 9, 10, 11, 4, 5, 6, 7, 0, 1, 2, 3 >>,
     << 13, 12, 15, 14, 9, 8, 11, 10, 5, 4, 7, 6, 1, 0, 3, 2 >>,
     << 14, 15, 12, 13, 10, 11, 8, 9, 6, 7, 4, 5, 2, 3, 0, 1 >>,
     << 15, 14, 13, 12, 11, 10, 9, 8, 7, 6, 5, 4, 3, 2, 1, 0 >> >>

XorByte(a, b) ==
  16 * NibXor[(a \div 16) + 1][(b \div 16) + 1] + NibXor[(a % 16) + 1][(b % 16) + 1]

\* The operators below bind their arguments in a singleton set before using
\* them, so that each argument is evaluated once however often it is used.
Xor64(a, b) ==
  CHOOSE r \in
    { << XorByte(x[1], y[1]), XorByte(x[2], y[2]), XorByte(x[3], y[3]), XorByte(x[4], y[4]),
         XorByte(x[5], y[5]), XorByte(x[6], y[6]), XorByte(x[7], y[7]), XorByte(x[8], y[8]) >>
      : x \in {a}, y \in {b} } : TRUE

\* the byte sums of x + y with their carries, least significant first
RECURSIVE Carry(_, _, _, _)
Carry(x, y, i, c) ==
  IF i > 8 THEN << >>
  ELSE << (x[i] + y[i] + c) % 256 >> \o Carry(x, y, i + 1, (x[i] + y[i] + c) \div 256)

\* u64::wrapping_add
Add64(a, b) == CHOOSE r \in { Carry(x, y, 1, 0) : x \in {a}, y \in {b} } : TRUE

RECURSIVE Pow2(_)
Pow2(n) == IF n = 0 THEN 1 ELSE 2 * Pow2(n - 1)

\* byte i (1..8) of x rotated left by 8*q + s bits, 0 <= s < 8
RotByte(x, i, q, s) ==
  IF s = 0 THEN x[((i - 1 - q + 8) % 8) + 1]
  ELSE ((x[((i - 1 - q + 8) % 8) + 1] * Pow2(s)) % 256)
         + (x[((i - 2 - q + 16) % 8) + 1] \div Pow2(8 - s))

\* u64::rotate_left(8*q + s)
Rotl64(a, q, s) ==
  CHOOSE r \in
    { << RotByte(x, 1, q, s), RotByte(x, 2, q, s), RotByte(x, 3, q, s), RotByte(x, 4, q, s),
         RotByte(x, 5, q, s), RotByte(x, 6, q, s), RotByte(x, 7, q, s), RotByte(x, 8, q, s) >>
      : x \in {a} } : TRUE

\* one SipRound on v = <<v0, v1, v2, v3>>, in its two halves:
\* v0 += v1; v1 <<<= 13; v1 ^= v0; v0 <<<= 32; v2 += v3; v3 <<<= 16; v3 ^= v2
HalfRoundA(v) ==
  CHOOSE r \in
    { << Rotl64(s[1], 4, 0), Xor64(Rotl64(x[2], 1, 5), s[1]), s[2], Xor64(Rotl64(x[4], 2, 0), s[2]) >>
      : s \in { << Add64(x[1], x[2]), Add64(x[3], x[4]) >> : x \in {v} }, x \in {v} } : TRUE

\* v0 += v3; v3 <<<= 21; v3 ^= v0; v2 += v1; v1 <<<= 17; v1 ^= v2; v2 <<<= 32
HalfRoundB(v) ==
  CHOOSE r \in
    { << s[1], Xor64(Rotl64(x[2], 2, 1), s[2]), Rotl64(s[2], 4, 0), Xor64(Rotl64(x[4], 2, 5), s[1]) >>
      : s \in { << Add64(x[1], x[4]), Add64(x[3], x[2]) >> : x \in {v} }, x \in {v} } : TRUE

SipRound(v) == HalfRoundB(HalfRoundA(v))

\* c = 1 compression round per 8-byte block m
Compress(v, m) ==
  CHOOSE r \in
    { << Xor64(y[1], z), y[2], y[3], y[4] >>
      : y \in { SipRound(<< x[1], x[2], x[3], Xor64(x[4], z) >>) : x \in {v}, z \in {m} },
        z \in {m} } : TRUE

RECURSIVE Absorb(_, _)
Absorb(v, msg) ==
  IF Len(msg) < 8 THEN v
  ELSE Absorb(Compress(v, SubSeq(msg, 1, 8)), SubSeq(msg, 9, Len(msg)))

\* the final block: the bytes left over, zero padding, and the length mod 256
LastBlock(msg) ==
  [i \in 1..8 |->
     IF i <= Len(msg) % 8 THEN msg[Len(msg) - (Len(msg) % 8) + i]
     ELSE IF i = 8 THEN Len(msg) % 256 ELSE 0]

\* "somepseu", "dorandom", "lygenera", "tedbytes" xor the keys (0, 0)
SipInit ==
  << << 117, 101, 115, 112, 101, 109, 111, 115 >>, << 109, 111, 100, 110, 97, 114, 111, 100 >>,
     << 97, 114, 101, 110, 101, 103, 121, 108 >>, << 115, 101, 116, 121, 98, 100, 101, 116 >> >>

\* v2 ^= 0xff, d = 3 finalization rounds, v0 ^ v1 ^ v2 ^ v3
Finish(v) ==
  CHOOSE r \in
    { Xor64(Xor64(f[1], f[2]), Xor64(f[3], f[4]))
      : f \in { SipRound(SipRound(SipRound(
                  << x[1], x[2], Xor64(x[3], << 255, 0, 0, 0, 0, 0, 0, 0 >>), x[4] >>)))
                : x \in {v} } } : TRUE

\* DefaultHasher::new(), write(msg), finish()
SipHash13(message) ==
  CHOOSE r \in { Finish(Compress(Absorb(SipInit, msg), LastBlock(msg))) : msg \in {message} } : TRUE

(***************************************************************************)
(* schema.rs: Value and its type tag.                                      *)
(***************************************************************************)
Signed(n) == [variant |-> "Signed", i |-> n]
Unsigned(n) == [variant |-> "Unsigned", u |-> n]
Str(s) == [variant |-> "Str", s |-> s]
Bool(b) == [variant |-> "Bool", b |-> b]
ValueNone == [variant |-> "None"]

\* one name for every type
MutTyBlind(value) == << 115 >>

\* a name that tells the value apart, not only its type
MutTyOfValue(value) ==
  CASE value.variant = "Signed" -> << 115, value.i >>
    [] value.variant = "Str" -> << 116 >> \o value.s
    [] OTHER -> << 110 >>

\* Value::ty, as the bytes of the returned &'static str
Ty(value) ==
  CASE value.variant = "Signed" -> << 115, 105, 103, 110, 101, 100 >>
    [] value.variant = "Unsigned" -> << 117, 110, 115, 105, 103, 110, 101, 100 >>
    [] value.variant = "Float" -> << 102, 108, 111, 97, 116 >>
    [] value.variant = "Bytes" -> << 98, 121, 116, 101, 115 >>
    [] value.variant = "Str" -> << 115, 116, 114, 105, 110, 103 >>
    [] value.variant = "Bool" -> << 98, 111, 111, 108 >>
    [] value.variant = "None" -> << 110, 111, 110, 101 >>

\* impl Hash for str: the bytes, then 0xff
HashStr(s) == s \o << 255 >>

\* what the loop of Doc::build writes to the hasher: (k, v.ty()) per field
RECURSIVE HashStream(_)
HashStream(fs) ==
  IF fs = << >> THEN << >>
  ELSE HashStr(fs[1][1]) \o HashStr(Ty(fs[1][2])) \o HashStream(Tail(fs))

\* the hash block of Doc::build
Fingerprint(fs) == SipHash13(HashStream(fs))

(***************************************************************************)
(* schema.rs: FieldPath and FieldCollector.                                *)
(***************************************************************************)
Dot == 46
Underscore == 95

\* u32 Display
RECURSIVE Decimal(_)
Decimal(n) == IF n < 10 THEN << 48 + n >> ELSE Decimal(n \div 10) \o << 48 + (n % 10) >>

\* FieldCollector::new
NewCollector ==
  [path |-> [anonymous |-> 0, components |-> << >>],
   current_field |-> None,
   fields |-> << >>]

\* FieldPath::push
Push(path, allow_child_fields, field) ==
  [path EXCEPT !.components =
     Append(@, [anonymous |-> 0, allow_child_fields |-> allow_child_fields, value |-> field])]

\* FieldPath::pop (VecDeque::pop_back: nothing happens on an empty deque)
Pop(path) ==
  [path EXCEPT !.components = IF @ = << >> THEN @ ELSE SubSeq(@, 1, Len(@) - 1)]

\* the fold of FieldPath::internal_current_to over the segments
RECURSIVE JoinSegments(_, _)
JoinSegments(s, segs) ==
  IF segs = << >> THEN s
  ELSE JoinSegments((IF Len(s) > 0 THEN s \o << Dot >> ELSE s) \o segs[1], Tail(segs))

\* FieldPath::internal_current_to; field is an Option
InternalCurrentTo(path, field) ==
  JoinSegments(<< >>, [i \in 1..Len(path.components) |-> path.components[i].value] \o field)

\* FieldPath::current
Current(path) == InternalCurrentTo(path, None)

\* FieldPath::current_to
CurrentTo(path, field) == InternalCurrentTo(path, Some(field))

\* FieldPath::anonymous: the assertion on the last component
AnonymousPanics(path) ==
  /\ path.components # << >>
  /\ ~path.components[Len(path.components)].allow_child_fields

\* FieldPath::anonymous: the synthesized field
AnonymousField(path) ==
  << Underscore >> \o
    Decimal(IF path.components # << >>
            THEN path.components[Len(path.components)].anonymous
            ELSE path.anonymous)

\* FieldPath::anonymous: the counter it increments
AnonymousNext(path) ==
  IF path.components # << >>
  THEN [path EXCEPT !.components[Len(path.components)].anonymous = @ + 1]
  ELSE [path EXCEPT !.anonymous = @ + 1]

\* FieldCollector::set_current_field: the assertion
SetCurrentFieldPanics(c) == c.current_field # None

\* FieldCollector::set_current_field
SetCurrentField(c, field) == [c EXCEPT !.current_field = Some(field)]

\* FieldCollector::push_path
PushPath(c) ==
  IF c.current_field # None
  THEN [c EXCEPT !.path = Push(c.path, TRUE, c.current_field[1]), !.current_field = None]
  ELSE c

\* FieldCollector::push_path_no_child_fields
MutPushPathNoChildFields(c) == PushPath(c)
PushPathNoChildFields(c) ==
  IF c.current_field # None
  THEN [c EXCEPT !.path = Push(c.path, FALSE, c.current_field[1]), !.current_field = None]
  ELSE c

\* FieldCollector::pop_path
PopPath(c) == [c EXCEPT !.path = Pop(c.path)]

\* the first arm of the match in move_next_field
NoChildFields(c) ==
  /\ c.path.components # << >>
  /\ ~c.path.components[Len(c.path.components)].allow_child_fields

\* FieldCollector::move_next_field: its assertions
MoveNextFieldPanics(c) ==
  IF NoChildFields(c)
  THEN c.current_field # None
  ELSE c.current_field = None /\ AnonymousPanics(c.path)

\* FieldCollector::move_next_field
MoveNextField(c, value) ==
  IF NoChildFields(c)
  THEN [c EXCEPT !.fields = Append(@, << Current(c.path), value >>)]
  ELSE IF c.current_field # None
       THEN [c EXCEPT !.fields = Append(@, << CurrentTo(c.path, c.current_field[1]), value >>),
                      !.current_field = None]
       ELSE [c EXCEPT !.fields = Append(@, << CurrentTo(c.path, AnonymousField(c.path)), value >>),
                      !.path = AnonymousNext(c.path)]

(***************************************************************************)
(* Doc::build(doc): doc.serialize(&mut ser) drives the Serializer methods  *)
(* of &mut FieldCollector in the order of the record's structure.  The     *)
(* record is the environment: `stack` holds the aggregates the record's    *)
(* Serialize impl has open, each with the dotted path the specification    *)
(* gives it, and `want` the field the specification expects per leaf.      *)
(***************************************************************************)
\* keys of structs and maps: "a", "b"
Keys == { << 97 >>, << 98 >> }

\* the scalars a record holds: 1i32, "x"
Scalars == { Signed(1), Str(<< 120 >>) }

Top == stack[Len(stack)]

\* the record's Serialize impl is at a place where a value is serialized
AtValue ==
  /\ ~panicked
  /\ doc = None
  /\ nodes < MaxNodes
  /\ IF stack = << >> THEN nodes = 0 ELSE (Top.kind = "map" => Top.key # None)

\* dotted path: segments joined by '.'
Dotted(p, seg) == IF p = << >> THEN seg ELSE p \o << Dot >> \o seg

\* the path the specification gives the value being serialized
WantPath(scalar) ==
  IF stack = << >>
  THEN IF scalar THEN << Underscore >> \o Decimal(0) ELSE << >>
  ELSE CASE Top.kind = "map" -> Dotted(Top.path, Top.key[1])
         [] Top.kind = "tuple" -> Dotted(Top.path, << Underscore >> \o Decimal(Top.n))
         [] Top.kind = "seq" -> Top.path

\* the enclosing aggregate has one more child, and its key is used up
Advanced ==
  IF stack = << >> THEN stack
  ELSE [stack EXCEPT ![Len(stack)].n = @ + 1, ![Len(stack)].key = None]

Opened(kind) ==
  Append(Advanced, [kind |-> kind, path |-> WantPath(FALSE), n |-> 0, key |-> None])

\* a struct, or a tuple or sequence that is the field of a struct
StaysPlain(kind) ==
  /\ plain
  /\ IF stack = << >> THEN kind = "map" ELSE Top.kind = "map"

\* serialize_bool, _i8.._i64, _u8.._u64, _f32, _f64, _char, _str, _bytes,
\* _none, _unit, _unit_struct, _unit_variant: all end in move_next_field.
\* serialize_some and serialize_newtype_struct pass the inner value on.
SerializeScalar(value) ==
  /\ AtValue
  /\ panicked' = MoveNextFieldPanics(ser)
  /\ ser' = IF MoveNextFieldPanics(ser) THEN ser ELSE MoveNextField(ser, value)
  /\ want' = Append(want, << WantPath(TRUE), value >>)
  /\ plain' = (plain /\ stack # << >>)
  /\ stack' = Advanced
  /\ nodes' = nodes + 1
  /\ UNCHANGED doc
  /\ UNCHANGED << fingerprintVars, searchVars, storeVars, indexableVars, loggerVars >>

\* serialize_seq
SerializeSeq ==
  /\ AtValue
  /\ ser' = PushPathNoChildFields(ser)
  /\ stack' = Opened("seq")
  /\ plain' = StaysPlain("seq")
  /\ nodes' = nodes + 1
  /\ UNCHANGED << panicked, doc, want >>
  /\ UNCHANGED << fingerprintVars, searchVars, storeVars, indexableVars, loggerVars >>

\* serialize_tuple, serialize_tuple_struct
SerializeTuple ==
  /\ AtValue
  /\ ser' = PushPath(ser)
  /\ stack' = Opened("tuple")
  /\ plain' = StaysPlain("tuple")
  /\ nodes' = nodes + 1
  /\ UNCHANGED << panicked, doc, want >>
  /\ UNCHANGED << fingerprintVars, searchVars, storeVars, indexableVars, loggerVars >>

\* serialize_map, and serialize_struct, which calls it
SerializeMap ==
  /\ AtValue
  /\ ser' = PushPath(ser)
  /\ stack' = Opened("map")
  /\ plain' = StaysPlain("map")
  /\ nodes' = nodes + 1
  /\ UNCHANGED << panicked, doc, want >>
  /\ UNCHANGED << fingerprintVars, searchVars, storeVars, indexableVars, loggerVars >>

\* SerializeMap::serialize_key with a key that KeyCollector renders as
\* `key`, and the set_current_field of SerializeStruct::serialize_field
SerializeKey(key) ==
  /\ ~panicked
  /\ doc = None
  /\ nodes < MaxNodes
  /\ stack # << >>
  /\ Top.kind = "map"
  /\ Top.key = None
  /\ panicked' = SetCurrentFieldPanics(ser)
  /\ ser' = IF SetCurrentFieldPanics(ser) THEN ser ELSE SetCurrentField(ser, key)
  /\ stack' = [stack EXCEPT ![Len(stack)].key = Some(key)]
  /\ UNCHANGED << doc, nodes, want, plain >>
  /\ UNCHANGED << fingerprintVars, searchVars, storeVars, indexableVars, loggerVars >>

\* SerializeSeq::end, SerializeTuple::end, SerializeTupleStruct::end,
\* SerializeMap::end, SerializeStruct::end
End ==
  /\ ~panicked
  /\ doc = None
  /\ stack # << >>
  /\ Top.key = None
  /\ ser' = PopPath(ser)
  /\ stack' = SubSeq(stack, 1, Len(stack) - 1)
  /\ UNCHANGED << panicked, doc, nodes, want, plain >>
  /\ UNCHANGED << fingerprintVars, searchVars, storeVars, indexableVars, loggerVars >>

\* Doc::build after doc.serialize returned Ok: hash the fields, return the Doc
DocBuild ==
  /\ ~panicked
  /\ doc = None
  /\ stack = << >>
  /\ nodes > 0
  /\ doc' = Some([index |-> Fingerprint(ser.fields), fields |-> ser.fields])
  /\ UNCHANGED << ser, panicked, stack, nodes, want, plain >>
  /\ UNCHANGED << fingerprintVars, searchVars, storeVars, indexableVars, loggerVars >>

FlattenNext ==
  \/ \E value \in Scalars : SerializeScalar(value)
  \/ SerializeSeq
  \/ SerializeTuple
  \/ SerializeMap
  \/ \E key \in Keys : SerializeKey(key)
  \/ End
  \/ DocBuild

(***************************************************************************)
(* Claims about flattening.                                                *)
(***************************************************************************)

\* C3: for a record of nested structs whose leaves are scalars, tuples of
\* scalars and sequences of scalars, the collector holds exactly one field
\* per scalar serialized so far, in traversal order, at the path k1.k2...kn
\* of its keys, P._i for the i-th element of a tuple at P, and P for every
\* element of a sequence at P.
C3_PathSynthesis == plain => (~panicked /\ ser.fields = want)

\* a built record {a: {b: (x, y)}}: fields a.b._0 and a.b._1
C3_Witness ==
  /\ plain
  /\ doc # None
  /\ Len(ser.fields) = 2
  /\ ser.fields[1][1] = << 97, 46, 98, 46, 95, 48 >>
  /\ ser.fields[2][1] = << 97, 46, 98, 46, 95, 49 >>

\* C4: flattening is total: whatever the nesting of scalars, keyed
\* aggregates, sequences and tuples, Doc::build does not abort and returns
\* one field per scalar leaf.
C4_FlattenTotal ==
  /\ ~panicked
  /\ doc # None => Len(doc[1].fields) = Len(want)

\* the paths P.k of the keys through which the value being serialized is
\* reached: the key pending in the innermost keyed aggregate, and the
\* paths of the aggregates that were opened as the value of a key
KeyPaths ==
  { stack[j + 1].path : j \in { i \in 1..(Len(stack) - 1) : stack[i].kind = "map" } }
    \cup (IF stack # << >> /\ Top.kind = "map" /\ Top.key # None
          THEN { Dotted(Top.path, Top.key[1]) }
          ELSE { })

\* path is p, or p followed by '.' and further segments
StartsWith(path, p) ==
  \/ path = p
  \/ /\ Len(path) > Len(p)
     /\ SubSeq(path, 1, Len(p)) = p
     /\ path[Len(p) + 1] = Dot

\* the aggregates around the value being serialized are keyed aggregates
\* and sequences, so that every path P is the chain of the keys
KeysAndSeqsAround == \A j \in 1..Len(stack) : stack[j].kind # "tuple"

\* C19, for the values that have only keyed aggregates and sequences
\* around them: every field that is emitted has a path that starts with
\* P.k for every key k of a keyed aggregate at P through which it is
\* reached, and is exactly P.k for a scalar that is the value of k, also
\* after nested tuples, sequences and keyed aggregates have closed.
C19_KeyPrefix ==
  [][(KeysAndSeqsAround /\ Len(ser'.fields) = Len(ser.fields) + 1) =>
       /\ \A p \in KeyPaths : StartsWith(ser'.fields[Len(ser'.fields)][1], p)
       /\ (stack # << >> /\ Top.kind = "map") =>
            ser'.fields[Len(ser'.fields)][1] = Dotted(Top.path, Top.key[1])]_vars

(***************************************************************************)
(* Doc::build for two records in turn, from their flattened field lists:   *)
(* the hash block and the returned Doc.  Any sequence of (path, value)     *)
(* pairs is the field list of some record (a map serializes its entries    *)
(* in any order, a sequence repeats its path), so the lists are drawn      *)
(* from all sequences over a few fields.                                   *)
(***************************************************************************)
\* a: 1, a: "x", b: 1
FieldsOfA == { << << 97 >>, Signed(1) >>, << << 97 >>, Str(<< 120 >>) >>, << << 98 >>, Signed(1) >> }

\* a: 2, a: "y", b: 2
FieldsOfB == { << << 97 >>, Signed(2) >>, << << 97 >>, Str(<< 121 >>) >>, << << 98 >>, Signed(2) >> }

FieldLists(options) == UNION { [1..n -> options] : n \in 0..MaxLen }

\* Doc::build from the collected fields on
BuildDoc(fs) == [index |-> Fingerprint(fs), fields |-> fs]

\* Doc::build of the first record returns
BuildFirst ==
  /\ docA = None
  /\ docA' = Some(BuildDoc(fieldsA))
  /\ UNCHANGED << fieldsA, fieldsB, docB >>
  /\ UNCHANGED << flattenVars, searchVars, storeVars, indexableVars, loggerVars >>

\* the second record has been serialized
SerializeSecond ==
  /\ docA # None
  /\ fieldsB = None
  /\ \E fs \in FieldLists(FieldsOfB) : fieldsB' = Some(fs)
  /\ UNCHANGED << fieldsA, docA, docB >>
  /\ UNCHANGED << flattenVars, searchVars, storeVars, indexableVars, loggerVars >>

\* Doc::build of the second record returns
BuildSecond ==
  /\ fieldsB # None
  /\ docB = None
  /\ docB' = Some(BuildDoc(fieldsB[1]))
  /\ UNCHANGED << fieldsA, docA, fieldsB >>
  /\ UNCHANGED << flattenVars, searchVars, storeVars, indexableVars, loggerVars >>

FingerprintNext == BuildFirst \/ SerializeSecond \/ BuildSecond

(***************************************************************************)
(* Claims about fingerprints.                                              *)
(***************************************************************************)
\* the (path, type) pairs of a field list, in order
Shape(fs) == [i \in 1..Len(fs) |-> << fs[i][1], fs[i][2].variant >>]

\* the set of (path, type) pairs of a field list
ShapeSet(fs) == { Shape(fs)[i] : i \in 1..Len(fs) }

BothBuilt == docA # None /\ docB # None

\* C1 as stated: two records whose field lists contain the same set of
\* (path, type) pairs have the same fingerprint.
C1_SameSetSameFingerprint ==
  (BothBuilt /\ ShapeSet(docA[1].fields) = ShapeSet(docB[1].fields))
    => docA[1].index = docB[1].index

\* C1 as amended: two records whose field lists carry the same sequence of
\* (path, type) pairs have the same fingerprint, whatever the values.
C1_SameSequenceSameFingerprint ==
  (BothBuilt /\ Shape(docA[1].fields) = Shape(docB[1].fields))
    => docA[1].index = docB[1].index

\* {a: 1, a: "x"} and {a: 2, a: "y"}: the same shape, other values
C1_Witness ==
  /\ BothBuilt
  /\ Len(docA[1].fields) = 2
  /\ Shape(docA[1].fields) = Shape(docB[1].fields)
  /\ docA[1].fields[1][2] # docB[1].fields[1][2]
  /\ docA[1].fields[2][2] # docB[1].fields[2][2]
  /\ docA[1].index = docB[1].index

\* C2: two records have the same fingerprint exactly when their field
\* lists carry the same sequence of (path, type) pairs: other paths, another
\* type at a shared path or another number of entries at a repeated path
\* give another fingerprint.
C2_FingerprintIffSameSequence ==
  BothBuilt =>
    ((docA[1].index = docB[1].index) <=> (Shape(docA[1].fields) = Shape(docB[1].fields)))

\* a sequence of 2 at path a against a sequence of 3 at path a
C2_Witness ==
  /\ BothBuilt
  /\ Shape(docA[1].fields) = [i \in 1..2 |-> << << 97 >>, "Signed" >>]
  /\ Shape(docB[1].fields) = [i \in 1..3 |-> << << 97 >>, "Signed" >>]
  /\ docA[1].index # docB[1].index

(***************************************************************************)
(* Doc::indexable: the schema built from Doc.fields and the document       *)
(* materialized against it.  A schema is the list of its fields in the     *)
(* order SchemaBuilder got them; a document is the list of its field       *)
(* values, each the index of its schema field and the value as a list of   *)
(* numbers.  Of the engine, the part the code relies on: the document      *)
(* store keeps the values of STORED fields, and to_json names them.        *)
(***************************************************************************)
MaxFields == 3

Float(x) == [variant |-> "Float", f |-> x]
Bytes(v) == [variant |-> "Bytes", bytes |-> v]

\* one value of every variant: 1i64, 1u64, 1.0, b"\0", "x", true, None
IndexableValues ==
  { Signed(1), Unsigned(1), Float(1), Bytes(<< 0 >>), Str(<< 120 >>), Bool(TRUE), ValueNone }

\* the position of the first entry of fs with the path of its n-th entry
FirstAt(fs, n) ==
  CHOOSE j \in 1..n : fs[j][1] = fs[n][1] /\ \A i \in 1..(j - 1) : fs[i][1] # fs[n][1]

\* seen.entry(k) is Vacant
Vacant(fs, n) == FirstAt(fs, n) = n

\* assert!(*entry.get() == v.ty()) fails for an Occupied entry
SchemaPanics(fs) ==
  \E n \in 1..Len(fs) : ~Vacant(fs, n) /\ Ty(fs[FirstAt(fs, n)][2]) # Ty(fs[n][2])

\* the schema field of a Vacant entry: add_i64_field(k, FAST),
\* add_bytes_field(k), add_text_field(k, STRING | STORED or TEXT | STORED)
SchemaEntry(k, v) ==
  CASE v.variant \in { "Signed", "Unsigned", "Float" } ->
         << [name |-> k, kind |-> "i64", options |-> "FAST"] >>
    [] v.variant = "Bytes" -> << [name |-> k, kind |-> "bytes", options |-> ""] >>
    [] v.variant = "Bool" -> << [name |-> k, kind |-> "text", options |-> "STRING | STORED"] >>
    [] v.variant = "Str" -> << [name |-> k, kind |-> "text", options |-> "TEXT | STORED"] >>
    [] v.variant = "None" -> << >>

\* the first loop of Doc::indexable from the n-th entry on, and schema.build()
RECURSIVE SchemaFields(_, _)
SchemaFields(fs, n) ==
  IF n > Len(fs) THEN << >>
  ELSE (IF Vacant(fs, n) THEN SchemaEntry(fs[n][1], fs[n][2]) ELSE << >>)
         \o SchemaFields(fs, n + 1)

\* Schema::get_field
GetField(schema, k) ==
  IF \E j \in 1..Len(schema) : schema[j].name = k
  THEN Some(CHOOSE j \in 1..Len(schema) : schema[j].name = k)
  ELSE None

\* .expect("missing field") fails
DocPanics(schema, fs) ==
  \E n \in 1..Len(fs) : fs[n][2].variant # "None" /\ GetField(schema, fs[n][1]) = None

\* f64::to_bits, least significant byte first
ToBits(x) ==
  CASE x = 0 -> << 0, 0, 0, 0, 0, 0, 0, 0 >>
    [] x = 1 -> << 0, 0, 0, 0, 0, 0, 240, 63 >>

\* what add_i64, add_u64, add_bytes and add_text append to the document
DocValue(schema, k, v) ==
  CASE v.variant = "Signed" ->
         << [field |-> GetField(schema, k)[1], type |-> "i64", v |-> << v.i >>] >>
    [] v.variant = "Unsigned" ->
         << [field |-> GetField(schema, k)[1], type |-> "u64", v |-> << v.u >>] >>
    [] v.variant = "Float" ->
         << [field |-> GetField(schema, k)[1], type |-> "u64", v |-> ToBits(v.f)] >>
    [] v.variant = "Bytes" ->
         << [field |-> GetField(schema, k)[1], type |-> "bytes", v |-> v.bytes] >>
    [] v.variant = "Bool" ->
         << [field |-> GetField(schema, k)[1], type |-> "text",
             v |-> IF v.b THEN << 116, 114, 117, 101 >> ELSE << 102, 97, 108, 115, 101 >>] >>
    [] v.variant = "Str" ->
         << [field |-> GetField(schema, k)[1], type |-> "text", v |-> v.s] >>
    [] v.variant = "None" -> << >>

\* the second loop of Doc::indexable from the n-th entry on
RECURSIVE DocValues(_, _, _)
DocValues(schema, fs, n) ==
  IF n > Len(fs) THEN << >>
  ELSE DocValue(schema, fs[n][1], fs[n][2]) \o DocValues(schema, fs, n + 1)

\* Doc::indexable
Indexable(fs) ==
  IF SchemaPanics(fs) \/ DocPanics(SchemaFields(fs, 1), fs)
  THEN [panicked |-> TRUE, schema |-> << >>, doc |-> << >>]
  ELSE [panicked |-> FALSE, schema |-> SchemaFields(fs, 1),
        doc |-> DocValues(SchemaFields(fs, 1), fs, 1)]

\* the field is STORED
Stored(field) == field.options \in { "STRING | STORED", "TEXT | STORED" }

\* searcher.doc(address), then Schema::to_json: the values of the STORED
\* fields of the document, under the names of their fields
RECURSIVE ToJson(_, _, _)
ToJson(schema, document, n) ==
  IF n > Len(document) THEN << >>
  ELSE (IF Stored(schema[document[n].field])
        THEN << [name |-> schema[document[n].field].name,
                 type |-> document[n].type, v |-> document[n].v] >>
        ELSE << >>)
         \o ToJson(schema, document, n + 1)

\* another value of the same type
OtherValue(v) ==
  CASE v.variant = "Signed" -> Signed(v.i + 1)
    [] v.variant = "Unsigned" -> Unsigned(v.u + 1)
    [] v.variant = "Float" -> Float(1 - v.f)
    [] v.variant = "Bytes" -> Bytes(v.bytes \o << 1 >>)
    [] v.variant = "Bool" -> Bool(~v.b)
    [] v.variant = "Str" -> Str(v.s \o << 121 >>)
    [] v.variant = "None" -> ValueNone

\* the field lists with the paths and types of fs, in the same order
SameShape(fs) ==
  { [n \in 1..Len(fs) |->
       IF n \in changed THEN << fs[n][1], OtherValue(fs[n][2]) >> ELSE fs[n]] :
    changed \in SUBSET (1..Len(fs)) }

\* Doc::indexable of the first Doc returns or panics
IndexableFirst ==
  /\ indexable = None
  /\ indexable' = Some(Indexable(docFields))
  /\ UNCHANGED << docFields, otherFields, otherIndexable, json >>
  /\ UNCHANGED << flattenVars, fingerprintVars, searchVars, storeVars, loggerVars >>

\* a second Doc of the same shape has been built
SecondDoc ==
  /\ indexable # None
  /\ otherFields = None
  /\ json = None
  /\ \E fs \in SameShape(docFields) : otherFields' = Some(fs)
  /\ UNCHANGED << docFields, indexable, otherIndexable, json >>
  /\ UNCHANGED << flattenVars, fingerprintVars, searchVars, storeVars, loggerVars >>

\* Doc::indexable of the second Doc returns or panics
IndexableSecond ==
  /\ otherFields # None
  /\ otherIndexable = None
  /\ otherIndexable' = Some(Indexable(otherFields[1]))
  /\ UNCHANGED << docFields, indexable, otherFields, json >>
  /\ UNCHANGED << flattenVars, fingerprintVars, searchVars, storeVars, loggerVars >>

\* the first document was added, committed, found and rendered
RenderStored ==
  /\ indexable # None
  /\ ~indexable[1].panicked
  /\ otherFields = None
  /\ json = None
  /\ json' = Some(ToJson(indexable[1].schema, indexable[1].doc, 1))
  /\ UNCHANGED << docFields, indexable, otherFields, otherIndexable >>
  /\ UNCHANGED << flattenVars, fingerprintVars, searchVars, storeVars, loggerVars >>

IndexableNext == IndexableFirst \/ SecondDoc \/ IndexableSecond \/ RenderStored

(***************************************************************************)
(* Claims about the schema and the document.                               *)
(***************************************************************************)
\* the paths of fs that have a value other than None
PathsWithValue(fs) == { fs[n][1] : n \in { j \in 1..Len(fs) : fs[j][2].variant # "None" } }

\* the first value of fs at path k
FirstValue(fs, k) == fs[CHOOSE n \in 1..Len(fs) : fs[n][1] = k /\ FirstAt(fs, n) = n][2]

\* the schema has one field per path of fs that has a value, of the kind
\* and policy of the first value at the path, and no other field
OneFieldPerPath(fs, schema) ==
  /\ { schema[j].name : j \in 1..Len(schema) } = PathsWithValue(fs)
  /\ \A i, j \in 1..Len(schema) : schema[i].name = schema[j].name => i = j
  /\ \A j \in 1..Len(schema) :
       << schema[j] >> = SchemaEntry(schema[j].name, FirstValue(fs, schema[j].name))

\* C14 as stated: Doc::indexable returns a schema with exactly one field
\* per distinct path that has a non-None value, of the kind of the first
\* value at that path, and two field lists with the same sequence of
\* (path, type) pairs get identical schemas.
C14_SchemaPerPath ==
  /\ indexable # None =>
       /\ ~indexable[1].panicked
       /\ OneFieldPerPath(docFields, indexable[1].schema)
  /\ (indexable # None /\ otherIndexable # None) =>
       /\ ~otherIndexable[1].panicked
       /\ otherIndexable[1].schema = indexable[1].schema

\* the values of the Doc at path k after their encoding, in field order
EncodedAt(fs, k) ==
  [n \in 1..Len(SelectSeq(fs, LAMBDA f : f[1] = k /\ f[2].variant # "None")) |->
     [name |-> k,
      type |-> DocValue(<< [name |-> k] >>, k,
                        SelectSeq(fs, LAMBDA f : f[1] = k /\ f[2].variant # "None")[n][2])[1].type,
      v |-> DocValue(<< [name |-> k] >>, k,
                     SelectSeq(fs, LAMBDA f : f[1] = k /\ f[2].variant # "None")[n][2])[1].v]]

\* C15 as stated: the rendered document of a record that was written and
\* found holds, at every path that has a value, the encoded values of
\* the flattened fields at that path, integers, floats and repeated
\* paths included.
C15_RoundTrip ==
  json # None =>
    \A k \in PathsWithValue(docFields) :
      SelectSeq(json[1], LAMBDA e : e.name = k) = EncodedAt(docFields, k)

\* C18 as stated: in the Doc built from any record that flattening
\* accepts, fields that share a path have values of one type, and the
\* assert of Doc::indexable on a repeated path holds.
C18_OneTypePerPath ==
  doc # None =>
    /\ \A i, j \in 1..Len(doc[1].fields) :
         doc[1].fields[i][1] = doc[1].fields[j][1] =>
           Ty(doc[1].fields[i][2]) = Ty(doc[1].fields[j][2])
    /\ ~SchemaPanics(doc[1].fields)

(***************************************************************************)
(* searcher.rs: Doc, its ordering, and the MultiIndexCollector over the    *)
(* BinaryHeap<Doc> of the standard library (an array, 1-based here).       *)
(***************************************************************************)
MaxHits == 2
MaxLimit == 2
MaxSearches == 2

\* the registered indexes, by fingerprint
Indexes == { 1, 2 }

\* the scores the engine gives
Scores == { 1, 2, 3 }

\* impl Ord for Doc: other.score.partial_cmp(&self.score); -1 is Less
DocCmp(self, other) ==
  IF other.score < self.score THEN -1
  ELSE IF other.score > self.score THEN 1
  ELSE 0

Swap(data, i, j) == [data EXCEPT ![i] = data[j], ![j] = data[i]]

\* BinaryHeap::sift_up(0, pos)
RECURSIVE SiftUp(_, _)
SiftUp(data, pos) ==
  IF pos = 1 THEN data
  ELSE IF DocCmp(data[pos], data[pos \div 2]) <= 0 THEN data
  ELSE SiftUp(Swap(data, pos, pos \div 2), pos \div 2)

\* BinaryHeap::sift_down_range(pos, len)
RECURSIVE SiftDown(_, _)
SiftDown(data, pos) ==
  IF 2 * pos > Len(data) THEN data
  ELSE LET left == 2 * pos
           right == left + 1
           child == IF right <= Len(data) /\ ~(DocCmp(data[left], data[right]) > 0)
                    THEN right ELSE left
       IN  IF DocCmp(data[pos], data[child]) >= 0 THEN data
           ELSE SiftDown(Swap(data, pos, child), child)

\* BinaryHeap::push
HeapPush(data, item) == SiftUp(Append(data, item), Len(data) + 1)

\* the place of x in a sorted list: behind every element that is not greater
RECURSIVE InsertSorted(_, _)
InsertSorted(sorted, x) ==
  IF sorted = << >> THEN << x >>
  ELSE IF DocCmp(Head(sorted), x) <= 0
       THEN << Head(sorted) >> \o InsertSorted(Tail(sorted), x)
       ELSE << x >> \o sorted

\* <[Doc]>::sort, a stable sort
RECURSIVE Sort(_)
Sort(docs) ==
  IF docs = << >> THEN << >>
  ELSE InsertSorted(Sort(SubSeq(docs, 1, Len(docs) - 1)), docs[Len(docs)])

MutWithLimitPanics(limit) == FALSE

\* MultiIndexCollector::with_limit: panic!("Limit must be strictly greater than 0.")
WithLimitPanics(limit) == limit < 1

\* MultiIndexCollector::with_limit
WithLimit(limit) == [limit |-> limit, heap |-> << >>, segment_id |-> 0]

\* MultiIndexCollector::top_docs
TopDocs(c) == Sort(c.heap)

MutAtCapacity(c) == Len(c.heap) > c.limit

\* MultiIndexCollector::at_capacity
AtCapacity(c) == Len(c.heap) >= c.limit

\* MultiIndexCollector::collect: the expect on self.heap.peek() panics
CollectPanics(c) == AtCapacity(c) /\ c.heap = << >>

\* MultiIndexCollector::set_segment_id
SetSegmentId(c, segment_id) == [c EXCEPT !.segment_id = segment_id]

MutCollect(c, index, docId, score) ==
  [c EXCEPT !.heap =
     IF Len(c.heap) >= c.limit
     THEN SiftDown([c.heap EXCEPT ![1].score = score,
                                  ![1].address = << c.segment_id, docId >>], 1)
     ELSE HeapPush(c.heap, [score |-> score, index |-> index,
                            address |-> << c.segment_id, docId >>])]

\* MultiIndexCollector::collect
Collect(c, index, docId, score) ==
  IF AtCapacity(c)
  THEN IF c.heap[1].score < score
       THEN [c EXCEPT !.heap =
               SiftDown([c.heap EXCEPT ![1].score = score,
                                       ![1].address = << c.segment_id, docId >>], 1)]
       ELSE c
  ELSE [c EXCEPT !.heap =
          HeapPush(c.heap, [score |-> score, index |-> index,
                            address |-> << c.segment_id, docId >>])]

(***************************************************************************)
(* Searcher::search over a registry that does not change: every index of   *)
(* the snapshot is queried in some order, the engine offers the matching   *)
(* documents of the index one by one, and top_docs ends the search.  Every *)
(* record was committed on its own, so the j-th document of an index is    *)
(* document 0 of segment j - 1.                                            *)
(***************************************************************************)
ScoreLists == UNION { [1..n -> Scores] : n \in 0..MaxHits }

\* Searcher::search: with_limit(limit) and the snapshot store.indexes()
Search(limit) ==
  /\ spc \in { "idle", "done", "panic", "fetch panic" }
  /\ searches < MaxSearches
  /\ searches' = searches + 1
  /\ previous' = IF spc = "done"
                 THEN Some([limit |-> collector[1].limit, result |-> result])
                 ELSE None
  /\ collector' = IF WithLimitPanics(limit) THEN None ELSE Some(WithLimit(limit))
  /\ remaining' = IF WithLimitPanics(limit) THEN { } ELSE Indexes
  /\ current' = None
  /\ lookup' = { }
  /\ result' = << >>
  /\ rendered' = << >>
  /\ failed' = { }
  /\ offered' = << >>
  /\ spc' = IF WithLimitPanics(limit) THEN "panic" ELSE "visiting"
  /\ UNCHANGED hits
  /\ UNCHANGED << flattenVars, fingerprintVars, storeVars, indexableVars, loggerVars >>

\* the loop takes the next (id, index) of the snapshot:
\* CurrentIndexCollector::begin, load_searchers, parse_query
BeginIndex(id) ==
  /\ spc = "visiting"
  /\ current = None
  /\ id \in remaining
  /\ remaining' = remaining \ { id }
  /\ current' = Some([index |-> id, pos |-> 0])
  /\ UNCHANGED << hits, collector, spc, lookup, result, offered, previous, searches >>
  /\ UNCHANGED << rendered, failed >>
  /\ UNCHANGED << flattenVars, fingerprintVars, storeVars, indexableVars, loggerVars >>

\* searcher.search offers the next matching document:
\* CurrentIndexCollector::set_segment, then CurrentIndexCollector::collect
CollectHit ==
  /\ spc = "visiting"
  /\ current # None
  /\ current[1].pos < Len(hits[current[1].index])
  /\ LET index == current[1].index
         segment == current[1].pos
         score == hits[index][segment + 1]
     IN  /\ IF CollectPanics(collector[1])
            THEN /\ spc' = "panic"
                 /\ UNCHANGED collector
            ELSE /\ collector' = Some(Collect(SetSegmentId(collector[1], segment),
                                              index, 0, score))
                 /\ UNCHANGED spc
         /\ offered' = Append(offered, [score |-> score, index |-> index,
                                        address |-> << segment, 0 >>])
  /\ current' = Some([current[1] EXCEPT !.pos = @ + 1])
  /\ UNCHANGED << hits, remaining, lookup, result, previous, searches >>
  /\ UNCHANGED << rendered, failed >>
  /\ UNCHANGED << flattenVars, fingerprintVars, storeVars, indexableVars, loggerVars >>

\* searcher.search returned: lookup.insert(id, (index, searcher))
EndIndex ==
  /\ spc = "visiting"
  /\ current # None
  /\ current[1].pos = Len(hits[current[1].index])
  /\ lookup' = lookup \cup { current[1].index }
  /\ current' = None
  /\ UNCHANGED << hits, collector, spc, remaining, result, offered, previous, searches >>
  /\ UNCHANGED << rendered, failed >>
  /\ UNCHANGED << flattenVars, fingerprintVars, storeVars, indexableVars, loggerVars >>

\* the address is one of the searcher that lookup holds for the entry's index
InSearcher(d) == d.index \in lookup /\ d.address[1] < Len(hits[d.index]) /\ d.address[2] = 0

\* the closure of the returned iterator: searcher.doc(doc.address)? on
\* lookup[&doc.index], then to_json: Err, or the document at the address
RenderHit(d, err) ==
  IF err THEN [ok |-> FALSE]
  ELSE [ok |-> TRUE, index |-> d.index, address |-> d.address]

\* every item is an error from the first failed fetch on
MutRenderAll(top, errs) ==
  [k \in 1..Len(top) |-> RenderHit(top[k], \E j \in errs : j <= k)]

\* the items of the returned iterator, one per retained hit
RenderAll(top, errs) == [k \in 1..Len(top) |-> RenderHit(top[k], k \in errs)]

\* the loop is over: collector.top_docs(), and the caller takes the items.
\* searcher.doc returns Err for the hits in failing; for an address outside
\* the searcher the engine returns Err or, when strict, panics
Ranked(failing, strict) ==
  /\ spc = "visiting"
  /\ current = None
  /\ remaining = { }
  /\ failing \subseteq 1..Len(TopDocs(collector[1]))
  /\ result' = TopDocs(collector[1])
  /\ LET top == TopDocs(collector[1])
         outside == { k \in 1..Len(top) : ~InSearcher(top[k]) }
     IN  IF strict /\ outside # { }
         THEN /\ spc' = "fetch panic"
              /\ failed' = { k \in failing : \A j \in outside : k < j }
              /\ rendered' = SubSeq(RenderAll(top, failing), 1,
                                    (CHOOSE j \in outside : \A i \in outside : j <= i) - 1)
         ELSE /\ spc' = "done"
              /\ failed' = failing \cup outside
              /\ rendered' = RenderAll(top, failing \cup outside)
  /\ UNCHANGED << hits, collector, remaining, current, lookup, offered, previous, searches >>
  /\ UNCHANGED << flattenVars, fingerprintVars, storeVars, indexableVars, loggerVars >>

SearchNext ==
  \/ \E limit \in 0..MaxLimit : Search(limit)
  \/ \E id \in Indexes : BeginIndex(id)
  \/ CollectHit
  \/ EndIndex
  \/ \E failing \in SUBSET (1..MaxLimit), strict \in BOOLEAN : Ranked(failing, strict)

(***************************************************************************)
(* Claims about the collector and the merge.                               *)
(***************************************************************************)
ScoresOf(docs) == [i \in 1..Len(docs) |-> docs[i].score]

Min(a, b) == IF a < b THEN a ELSE b

Highest(docs) == CHOOSE i \in 1..Len(docs) : \A j \in 1..Len(docs) : docs[j].score <= docs[i].score

Without(docs, i) == SubSeq(docs, 1, i - 1) \o SubSeq(docs, i + 1, Len(docs))

\* the k highest scores among docs, highest first
RECURSIVE Best(_, _)
Best(docs, k) ==
  IF k = 0 \/ docs = << >> THEN << >>
  ELSE << docs[Highest(docs)].score >> \o Best(Without(docs, Highest(docs)), k - 1)

\* C5 as stated: two searches of the same registry with the same limit,
\* whatever the order in which they visit the indexes, yield the same list
\* of (fingerprint, address, score) hits, ranked by score.
C5_MergeOrderIndependent ==
  (spc = "done" /\ previous # None /\ previous[1].limit = collector[1].limit)
    => /\ result = previous[1].result
       /\ ScoresOf(result) = Best(result, Len(result))

\* C6: after any sequence of n hits offered to a collector with limit L,
\* top_docs returns min(L, n) entries, in descending score order, and their
\* scores are the min(L, n) highest scores offered.
C6_TopDocsHighest ==
  collector # None =>
    ScoresOf(TopDocs(collector[1])) = Best(offered, Min(collector[1].limit, Len(offered)))

\* four hits offered to a collector of limit 2, the lowest first
C6_Witness ==
  /\ spc = "done"
  /\ collector[1].limit = 2
  /\ ScoresOf(offered) = << 1, 3, 2, 1 >>
  /\ ScoresOf(result) = << 3, 2 >>

\* C7: after every collect, in every state of a search over the indexes,
\* the collector holds at most limit entries.
C7_AtMostLimit == collector # None => Len(collector[1].heap) <= collector[1].limit

\* a full collector has been offered a further hit, from the second index
C7_Witness ==
  /\ collector # None
  /\ Len(collector[1].heap) = collector[1].limit
  /\ Len(offered) > collector[1].limit
  /\ Cardinality({ offered[i].index : i \in 1..Len(offered) }) = 2


\* C12: search with limit 0 panics in with_limit, before an index is
\* queried and before a result exists, and a search panics in no other
\* way: with limit >= 1 the expect of collect never fires.
C12_LimitZeroIsFatal ==
  /\ [](spc = "panic" =>
          /\ collector = None
          /\ remaining = { } /\ current = None /\ lookup = { }
          /\ offered = << >> /\ result = << >>)
  /\ [](collector # None => collector[1].limit >= 1 /\ ~CollectPanics(collector[1]))
  /\ [][/\ Search(0) => spc' = "panic"
        /\ spc' = "panic" => Search(0)]_vars

\* a search with limit 1 over two matching documents ended, the next
\* search, with limit 0, panicked
C12_Witness ==
  /\ spc = "panic"
  /\ previous # None
  /\ previous[1].limit = 1
  /\ Len(previous[1].result) = 1
  /\ Len(hits[1]) + Len(hits[2]) >= 2

\* C13: when searcher.doc returns Err for some retained hits, search has
\* returned Ok all the same: the iterator has one item per retained hit, in
\* rank order, an error item at the positions of the failed fetches and
\* the rendered document of the hit at every other position.
C13_PartialSuccess ==
  spc = "done" =>
    /\ Len(rendered) = Len(result)
    /\ \A k \in 1..Len(result) :
         IF k \in failed
         THEN ~rendered[k].ok
         ELSE /\ rendered[k].ok
              /\ rendered[k].index = result[k].index
              /\ rendered[k].address = result[k].address

\* of two retained hits, the fetch of the first failed and the second is
\* rendered
C13_Witness ==
  /\ spc = "done"
  /\ Len(result) = 2
  /\ failed = { 1 }
  /\ ~rendered[1].ok
  /\ rendered[2].ok
  /\ result[1].score > result[2].score

\* C16 as stated: every entry of the collector, and every hit of the
\* result, is one of the hits offered so far, with the index that owns
\* its address and its score.
C16_EntriesAreOffered ==
  /\ collector # None =>
       \A k \in 1..Len(collector[1].heap) :
         \E j \in 1..Len(offered) : offered[j] = collector[1].heap[k]
  /\ \A k \in 1..Len(result) : \E j \in 1..Len(offered) : offered[j] = result[k]

\* (fingerprint, segment id, local doc id) of d is not after that of e
KeyNotAfter(d, e) ==
  \/ d.index < e.index
  \/ d.index = e.index /\ d.address[1] < e.address[1]
  \/ d.index = e.index /\ d.address[1] = e.address[1] /\ d.address[2] <= e.address[2]

\* C17 as stated: in the result of a search, hits of equal score stand in
\* ascending order of (fingerprint, segment id, local doc id).
C17_TiesByKey ==
  spc = "done" =>
    \A k \in 1..(Len(result) - 1) :
      result[k].score = result[k + 1].score => KeyNotAfter(result[k], result[k + 1])

(***************************************************************************)
(* store.rs, index.rs: Indexers that share one Store.  A record comes as   *)
(* its Doc: fingerprint and schema.  The engine is what the code relies    *)
(* on: an Index has one writer at a time, Index::writer and commit may     *)
(* fail, and a commit makes the added documents a segment of the Index.    *)
(***************************************************************************)
MaxCalls == 2
MaxLookups == 1

Indexers == { 1, 2 }

\* the records logged: {msg} and {msg, err}, with the score of their hits
RecordKinds ==
  { [index |-> 1, schema |-> { "msg" }, score |-> 1],
    [index |-> 2, schema |-> { "err", "msg" }, score |-> 2] }

\* a query names the field it searches
Queries == { "msg", "err" }

IdleCall == [pc |-> "idle", doc |-> None, hit |-> FALSE, writer |-> None, ops |-> << >>]

\* the fingerprint of the record of the call of Indexer i
IndexOf(i) == call[i].doc[1].index

MutCanLock(lock) == TRUE

\* Mutex::lock returns when no thread holds the guard
CanLock(lock) == lock = None

\* Index::create_in_ram(doc.schema.clone())
CreateInRam(d) == [for |-> d.index, schema |-> d.schema, committed |-> << >>, writerHeld |-> FALSE]

MutAddDocument(writer, d) == [writer EXCEPT !.pending = Append(Append(@, d), d)]

\* IndexWriter::add_document
AddDocument(writer, d) == [writer EXCEPT !.pending = Append(@, d)]

\* every call goes to the Store, cached writer or not
MutIndex(i, kind) ==
  /\ call[i].pc = "idle"
  /\ calls < MaxCalls
  /\ calls' = calls + 1
  /\ call' = [call EXCEPT ![i] =
       [pc |-> "lock",
        doc |-> Some([id |-> calls + 1, index |-> kind.index,
                      schema |-> kind.schema, score |-> kind.score]),
        hit |-> FALSE,
        writer |-> None,
        ops |-> << >>]]
  /\ UNCHANGED << registry, registryLock, engine, writers, acked, inserted, srch, lookups >>
  /\ UNCHANGED << flattenVars, fingerprintVars, searchVars, indexableVars, loggerVars >>

\* Indexer::index: Doc::build(doc), self.writers.get_mut(&doc.index())
Index(i, kind) ==
  /\ call[i].pc = "idle"
  /\ calls < MaxCalls
  /\ calls' = calls + 1
  /\ call' = [call EXCEPT ![i] =
       [pc |-> IF writers[i][kind.index] # None THEN "add" ELSE "lock",
        doc |-> Some([id |-> calls + 1, index |-> kind.index,
                      schema |-> kind.schema, score |-> kind.score]),
        hit |-> writers[i][kind.index] # None,
        writer |-> None,
        ops |-> << >>]]
  /\ UNCHANGED << registry, registryLock, engine, writers, acked, inserted, srch, lookups >>
  /\ UNCHANGED << flattenVars, fingerprintVars, searchVars, indexableVars, loggerVars >>

\* Store::get_writer: self.state.lock()
GetWriterLock(i) ==
  /\ call[i].pc = "lock"
  /\ CanLock(registryLock)
  /\ registryLock' = Some(i)
  /\ call' = [call EXCEPT ![i].pc = "lookup"]
  /\ UNCHANGED << registry, engine, writers, acked, calls, inserted, srch, lookups >>
  /\ UNCHANGED << flattenVars, fingerprintVars, searchVars, indexableVars, loggerVars >>

\* index.writer succeeds although the Index has a writer
MutGetWriterExisting(i, ok) ==
  /\ call[i].pc = "lookup"
  /\ registry[IndexOf(i)] # None
  /\ LET id == registry[IndexOf(i)][1]
     IN  IF ok
         THEN /\ engine' = [engine EXCEPT ![id].writerHeld = TRUE]
              /\ call' = [call EXCEPT ![i].pc = "add",
                                      ![i].writer = Some([index |-> id, pending |-> << >>])]
         ELSE /\ call' = [call EXCEPT ![i].pc = "err"]
              /\ UNCHANGED engine
  /\ registryLock' = None
  /\ UNCHANGED << registry, writers, acked, calls, inserted, srch, lookups >>
  /\ UNCHANGED << flattenVars, fingerprintVars, searchVars, indexableVars, loggerVars >>

\* Store::get_writer: the Index is registered; index.writer(HEAP_SIZE)?
\* fails when the Index has a writer, or when the engine says so
GetWriterExisting(i, ok) ==
  /\ call[i].pc = "lookup"
  /\ registry[IndexOf(i)] # None
  /\ LET id == registry[IndexOf(i)][1]
     IN  IF ok /\ ~engine[id].writerHeld
         THEN /\ engine' = [engine EXCEPT ![id].writerHeld = TRUE]
              /\ call' = [call EXCEPT ![i].pc = "add",
                                      ![i].writer = Some([index |-> id, pending |-> << >>])]
         ELSE /\ call' = [call EXCEPT ![i].pc = "err"]
              /\ UNCHANGED engine
  /\ registryLock' = None
  /\ UNCHANGED << registry, writers, acked, calls, inserted, srch, lookups >>
  /\ UNCHANGED << flattenVars, fingerprintVars, searchVars, indexableVars, loggerVars >>

\* Store::get_writer: no Index is registered; Index::create_in_ram, then
\* index.writer(HEAP_SIZE)?, which drops the Index and the guard on Err
GetWriterCreate(i, ok) ==
  /\ call[i].pc = "lookup"
  /\ registry[IndexOf(i)] = None
  /\ engine' = Append(engine, [CreateInRam(call[i].doc[1]) EXCEPT !.writerHeld = ok])
  /\ IF ok
     THEN /\ call' = [call EXCEPT ![i].pc = "insert",
                                  ![i].writer = Some([index |-> Len(engine) + 1,
                                                      pending |-> << >>])]
          /\ UNCHANGED registryLock
     ELSE /\ call' = [call EXCEPT ![i].pc = "err"]
          /\ registryLock' = None
  /\ UNCHANGED << registry, writers, acked, calls, inserted, srch, lookups >>
  /\ UNCHANGED << flattenVars, fingerprintVars, searchVars, indexableVars, loggerVars >>

\* Store::get_writer: state.insert(doc.index, index); Ok(writer)
GetWriterInsert(i) ==
  /\ call[i].pc = "insert"
  /\ registry' = [registry EXCEPT ![IndexOf(i)] = Some(call[i].writer[1].index)]
  /\ inserted' = [inserted EXCEPT ![IndexOf(i)] = Append(@, call[i].writer[1].index)]
  /\ registryLock' = None
  /\ call' = [call EXCEPT ![i].pc = "add"]
  /\ UNCHANGED << engine, writers, acked, calls, srch, lookups >>
  /\ UNCHANGED << flattenVars, fingerprintVars, searchVars, indexableVars, loggerVars >>

\* Indexer::index: writer.add_document(i.doc), on the cached writer or on
\* the one get_writer returned
AddDoc(i) ==
  /\ call[i].pc = "add"
  /\ IF call[i].hit
     THEN /\ writers' = [writers EXCEPT ![i][IndexOf(i)] =
                           Some(AddDocument(@[1], call[i].doc[1]))]
          /\ call' = [call EXCEPT ![i].pc = "commit", ![i].ops = Append(@, "add")]
     ELSE /\ call' = [call EXCEPT ![i].pc = "commit", ![i].ops = Append(@, "add"),
                                  ![i].writer = Some(AddDocument(@[1], call[i].doc[1]))]
          /\ UNCHANGED writers
  /\ UNCHANGED << registry, registryLock, engine, acked, calls, inserted, srch, lookups >>
  /\ UNCHANGED << flattenVars, fingerprintVars, searchVars, indexableVars, loggerVars >>

\* the writer the call adds to and commits
WriterOf(i) == IF call[i].hit THEN writers[i][IndexOf(i)][1] ELSE call[i].writer[1]

\* Indexer::index: writer.commit()? succeeds: the added documents become
\* segments of the Index; self.writers.insert after a miss; Ok(())
CommitOk(i) ==
  /\ call[i].pc = "commit"
  /\ engine' = [engine EXCEPT ![WriterOf(i).index].committed = @ \o WriterOf(i).pending]
  /\ writers' = [writers EXCEPT ![i][IndexOf(i)] =
                   Some([WriterOf(i) EXCEPT !.pending = << >>])]
  /\ call' = [call EXCEPT ![i].pc = "ok", ![i].writer = None,
                          ![i].ops = Append(@, "commit")]
  /\ UNCHANGED << registry, registryLock, acked, calls, inserted, srch, lookups >>
  /\ UNCHANGED << flattenVars, fingerprintVars, searchVars, indexableVars, loggerVars >>

\* the failed commit caches the writer all the same
MutCommitErr(i) ==
  /\ call[i].pc = "commit"
  /\ writers' = [writers EXCEPT ![i][IndexOf(i)] = Some(WriterOf(i))]
  /\ call' = [call EXCEPT ![i].pc = "err", ![i].writer = None,
                          ![i].ops = Append(@, "commit")]
  /\ UNCHANGED << registry, registryLock, engine, acked, calls, inserted, srch, lookups >>
  /\ UNCHANGED << flattenVars, fingerprintVars, searchVars, indexableVars, loggerVars >>

\* Indexer::index: writer.commit()? fails: a cached writer stays cached with
\* what was added to it, the writer of get_writer is dropped
CommitErr(i) ==
  /\ call[i].pc = "commit"
  /\ engine' = IF call[i].hit THEN engine
               ELSE [engine EXCEPT ![WriterOf(i).index].writerHeld = FALSE]
  /\ call' = [call EXCEPT ![i].pc = "err", ![i].writer = None,
                          ![i].ops = Append(@, "commit")]
  /\ UNCHANGED << registry, registryLock, writers, acked, calls, inserted, srch, lookups >>
  /\ UNCHANGED << flattenVars, fingerprintVars, searchVars, indexableVars, loggerVars >>

\* Indexer::index returns to Logger::log, which drops the Result
Return(i) ==
  /\ call[i].pc \in { "ok", "err" }
  /\ acked' = IF call[i].pc = "ok" THEN acked \cup { call[i].doc[1] } ELSE acked
  /\ call' = [call EXCEPT ![i] = IdleCall]
  /\ UNCHANGED << registry, registryLock, engine, writers, calls, inserted, srch, lookups >>
  /\ UNCHANGED << flattenVars, fingerprintVars, searchVars, indexableVars, loggerVars >>

IdleSearch ==
  [pc |-> "idle", query |-> "msg", limit |-> 1, remaining |-> { },
   collector |-> WithLimit(1), views |-> [f \in Indexes |-> None],
   result |-> << >>, mustSee |-> { }]

\* the query matches the documents that have its field
Matches(d, query) == query \in d.schema

\* QueryParser::parse_query against the schema of an Index
Parses(query, schema) == query \in schema

\* searcher.search(&*query, &mut collector): set_segment and collect for
\* the matching documents of the view, from its j-th segment on
RECURSIVE CollectAll(_, _, _, _, _)
CollectAll(c, f, view, j, query) ==
  IF j > Len(view) THEN c
  ELSE CHOOSE r \in { CollectAll(next, f, view, j + 1, query) :
                      next \in { IF Matches(view[j], query)
                                 THEN Collect(SetSegmentId(c, j - 1), f, 0, view[j].score)
                                 ELSE c } } : TRUE

\* searcher.doc(doc.address) on the searcher that lookup holds for doc.index
Render(views, d) ==
  IF views[d.index] # None /\ d.address[1] < Len(views[d.index][1])
  THEN Some(views[d.index][1][d.address[1] + 1].id)
  ELSE None

\* the mapping is read without taking the registry lock
MutSnapshot(query, limit) ==
  /\ srch.pc \in { "idle", "done", "failed" }
  /\ lookups < MaxLookups
  /\ lookups' = lookups + 1
  /\ srch' = [pc |-> "visiting", query |-> query, limit |-> limit,
              remaining |-> { f \in Indexes : registry[f] # None },
              collector |-> WithLimit(limit),
              views |-> [f \in Indexes |-> None],
              result |-> << >>,
              mustSee |-> { d \in acked : Matches(d, query) }]
  /\ UNCHANGED << registry, registryLock, engine, writers, call, acked, calls, inserted >>
  /\ UNCHANGED << flattenVars, fingerprintVars, searchVars, indexableVars, loggerVars >>

\* Searcher::search: with_limit(limit), then Store::indexes, the clone of
\* Store.state under its lock
Snapshot(query, limit) ==
  /\ srch.pc \in { "idle", "done", "failed" }
  /\ lookups < MaxLookups
  /\ CanLock(registryLock)
  /\ lookups' = lookups + 1
  /\ srch' = [pc |-> "visiting", query |-> query, limit |-> limit,
              remaining |-> { f \in Indexes : registry[f] # None },
              collector |-> WithLimit(limit),
              views |-> [f \in Indexes |-> None],
              result |-> << >>,
              mustSee |-> { d \in acked : Matches(d, query) }]
  /\ UNCHANGED << registry, registryLock, engine, writers, call, acked, calls, inserted >>
  /\ UNCHANGED << flattenVars, fingerprintVars, searchVars, indexableVars, loggerVars >>

\* Searcher::search, one turn of the loop: load_searchers, parse_query?,
\* searcher.search, lookup.insert
QueryIndex(f) ==
  /\ srch.pc = "visiting"
  /\ f \in srch.remaining
  /\ LET index == engine[registry[f][1]]
     IN  IF Parses(srch.query, index.schema)
         THEN srch' = [srch EXCEPT
                !.remaining = @ \ { f },
                !.collector = CollectAll(@, f, index.committed, 1, srch.query),
                !.views[f] = Some(index.committed)]
         ELSE srch' = [srch EXCEPT !.pc = "failed"]
  /\ UNCHANGED << registry, registryLock, engine, writers, call, acked, calls, inserted, lookups >>
  /\ UNCHANGED << flattenVars, fingerprintVars, searchVars, indexableVars, loggerVars >>

\* Searcher::search: Ok(collector.top_docs() ...), each hit rendered
Rendered ==
  /\ srch.pc = "visiting"
  /\ srch.remaining = { }
  /\ srch' = [srch EXCEPT
       !.pc = "done",
       !.result = [k \in 1..Len(TopDocs(srch.collector)) |->
                     Render(srch.views, TopDocs(srch.collector)[k])]]
  /\ UNCHANGED << registry, registryLock, engine, writers, call, acked, calls, inserted, lookups >>
  /\ UNCHANGED << flattenVars, fingerprintVars, searchVars, indexableVars, loggerVars >>

StoreNext ==
  \/ \E i \in Indexers, kind \in RecordKinds : Index(i, kind)
  \/ \E i \in Indexers : GetWriterLock(i)
  \/ \E i \in Indexers, ok \in BOOLEAN : GetWriterExisting(i, ok)
  \/ \E i \in Indexers, ok \in BOOLEAN : GetWriterCreate(i, ok)
  \/ \E i \in Indexers : GetWriterInsert(i)
  \/ \E i \in Indexers : AddDoc(i)
  \/ \E i \in Indexers : CommitOk(i)
  \/ \E i \in Indexers : CommitErr(i)
  \/ \E i \in Indexers : Return(i)
  \/ \E query \in Queries, limit \in 1..MaxCalls : Snapshot(query, limit)
  \/ \E f \in Indexes : QueryIndex(f)
  \/ Rendered

(***************************************************************************)
(* Claims about the Store, the Indexers and the Searcher.                  *)
(***************************************************************************)
\* the Indexes created for fingerprint f
CreatedFor(f) == { id \in 1..Len(engine) : engine[id].for = f }

\* the Indexers that hold a writer for fingerprint f that get_writer returned
Holders(f) ==
  { i \in Indexers :
      \/ writers[i][f] # None
      \/ call[i].pc \in { "add", "commit" } /\ IndexOf(i) = f /\ ~call[i].hit }

HeldWriter(i, f) == IF writers[i][f] # None THEN writers[i][f][1] ELSE call[i].writer[1]

\* at most one Index was ever registered for f, and the writers handed out
\* for f are scoped to it
OneRegistered(f) ==
  /\ Len(inserted[f]) <= 1
  /\ registry[f] = (IF inserted[f] = << >> THEN None ELSE Some(inserted[f][1]))
  /\ \A i \in Holders(f) : registry[f] = Some(HeldWriter(i, f).index)

C9_AddThenCommit ==
  \A i \in Indexers :
    call[i].pc = "ok" =>
      /\ call[i].ops = << "add", "commit" >>
      /\ writers[i][IndexOf(i)] # None
      /\ writers[i][IndexOf(i)][1].pending = << >>
      /\ registry[IndexOf(i)] = Some(writers[i][IndexOf(i)][1].index)
      /\ Cardinality({ k \in 1..Len(engine[registry[IndexOf(i)][1]].committed) :
                         engine[registry[IndexOf(i)][1]].committed[k] = call[i].doc[1] }) = 1

\* a call through the cached writer returns Ok, after a first call that
\* went through get_writer
C9_Witness ==
  /\ call[1].pc = "ok"
  /\ call[1].hit
  /\ Len(engine[registry[IndexOf(1)][1]].committed) = 2
  /\ acked # { }

\* the documents committed to registered Indexes that the query matches
MatchingDocs(query) ==
  UNION { { engine[registry[f][1]].committed[k] :
              k \in { j \in 1..Len(engine[registry[f][1]].committed) :
                        Matches(engine[registry[f][1]].committed[j], query) } } :
          f \in { g \in Indexes : registry[g] # None } }

\* C10 as stated: a search started after index(record) returned Ok, with a
\* query that matches the record and a limit of at least the number of
\* matching documents, returns the record.
C10_CommittedIsFound ==
  (srch.pc \in { "done", "failed" } /\ srch.limit >= Cardinality(MatchingDocs(srch.query)))
    => \A d \in srch.mustSee :
         /\ srch.pc = "done"
         /\ \E k \in 1..Len(srch.result) : srch.result[k] = Some(d.id)

\* the writer cache of Indexer i: per fingerprint, the Index its writer is for
Cache(i) ==
  [f \in Indexes |-> IF writers[i][f] = None THEN None ELSE Some(writers[i][f][1].index)]

C20_OtherSchemasDoNotMatter ==
  (srch.pc \in { "done", "failed" } /\ srch.mustSee # { }) =>
    /\ srch.pc = "done"
    /\ Len(srch.result) >= Min(srch.limit, Cardinality(srch.mustSee))

\* C22: a call is inside Store::get_writer only while its Indexer has no
\* writer cached for the fingerprint of the record; a call that found a
\* writer cached takes neither the registry lock nor a writer of its own;
\* and a cached writer stays cached, for the same Index, so that every
\* later call for the fingerprint adds and commits through it.
C22_CachedWriterSkipsRegistry ==
  /\ [](\A i \in Indexers :
          call[i].pc \in { "lock", "lookup", "insert" } =>
            ~call[i].hit /\ writers[i][IndexOf(i)] = None)
  /\ [](\A i \in Indexers :
          (call[i].pc # "idle" /\ call[i].hit) =>
            /\ writers[i][IndexOf(i)] # None
            /\ call[i].writer = None
            /\ registryLock # Some(i)
            /\ call[i].pc \in { "add", "commit", "ok", "err" })
  /\ [][\A i \in Indexers, f \in Indexes :
          writers[i][f] # None =>
            /\ writers'[i][f] # None
            /\ writers'[i][f][1].index = writers[i][f][1].index]_vars

\* the second call of Indexer 2 for a fingerprint is committing through the
\* writer its first call cached, and the Registry was asked once
C22_Witness ==
  /\ call[2].pc = "commit"
  /\ call[2].hit
  /\ call[2].doc[1].id = 2
  /\ call[2].ops = << "add" >>
  /\ Len(engine) = 1
  /\ Len(engine[1].committed) = 1
  /\ registryLock = None

\* the fingerprints whose Index the search has queried
Queried(s) == { f \in Indexes : s.views[f] # None }

\* C23: the search starts from the fingerprints registered at the moment
\* Store::indexes holds the registry lock, which no get_writer holds then
\* and which is free again when the loop starts; every turn of the loop
\* moves one fingerprint of that snapshot from the ones to query to the
\* ones queried, and a search that returned Ok has queried all of them
\* and no other, whatever was registered in the meantime.
C23_SearchQueriesItsSnapshot ==
  /\ [][(srch.pc # "visiting" /\ srch'.pc = "visiting") =>
          /\ registryLock = None
          /\ registryLock' = None
          /\ srch'.remaining = { f \in Indexes : registry[f] # None }
          /\ Queried(srch') = { }]_vars
  /\ [][srch.pc = "visiting" =>
          /\ Queried(srch') \cup srch'.remaining = Queried(srch) \cup srch.remaining
          /\ Queried(srch') \cap srch'.remaining = { }
          /\ Cardinality(Queried(srch')) <= Cardinality(Queried(srch)) + 1
          /\ Queried(srch) \subseteq Queried(srch')]_vars
  /\ [](srch.pc = "done" => srch.remaining = { })
  /\ [](srch.pc = "visiting" => Queried(srch) \cap srch.remaining = { })

\* the search took its snapshot while only fingerprint 1 was registered and
\* returned after fingerprint 2 was registered by a get_writer: it queried
\* fingerprint 1 only
C23_Witness ==
  /\ srch.pc = "done"
  /\ Queried(srch) = { 1 }
  /\ registry[1] # None
  /\ registry[2] # None
  /\ Len(srch.result) = 1

\* the Indexers that hold an open writer for fingerprint f: cached, or in
\* the hands of a call that got it from get_writer
WriterHolders(f) ==
  { i \in Indexers :
      \/ writers[i][f] # None
      \/ call[i].pc # "idle" /\ call[i].writer # None /\ IndexOf(i) = f }

C25_FailedCallRegistersNothing ==
  (acked = { } /\ calls > 0 /\ \A i \in Indexers : call[i].pc \in { "idle", "err" })
    => \A f \in Indexes : registry[f] = None

(***************************************************************************)
(* logger.rs: threads that log through one Logger, whose Indexer sits in   *)
(* a Mutex, next to a Searcher on the same Store.  The Indexer of the      *)
(* Logger is Indexer 1 of the Store above, and its index() call goes       *)
(* through the same steps.  A panic inside the guard poisons the Mutex.    *)
(***************************************************************************)
MaxLogs == 3

Threads == { 1, 2 }

\* the Indexer that Logger.indexer holds
LoggerIndexer == 1

\* records that Doc::build does not flatten: a map with a key that is not
\* a scalar, an enum variant that carries data
Unsupported == { "non-scalar key", "data-carrying variant" }

\* a thread calls Logger::log
Log(t) ==
  /\ thread[t] = "idle"
  /\ logs < MaxLogs
  /\ logs' = logs + 1
  /\ thread' = [thread EXCEPT ![t] = "lock"]
  /\ UNCHANGED indexer
  /\ UNCHANGED << flattenVars, fingerprintVars, searchVars, storeVars, indexableVars >>

\* Logger::log: self.indexer.lock().expect("indexer poisoned")
LogLock(t) ==
  /\ thread[t] = "lock"
  /\ indexer.holder = None
  /\ IF indexer.poisoned
     THEN /\ thread' = [thread EXCEPT ![t] = "poisoned"]
          /\ UNCHANGED indexer
     ELSE /\ thread' = [thread EXCEPT ![t] = "index"]
          /\ indexer' = [indexer EXCEPT !.holder = Some(t)]
  /\ UNCHANGED logs
  /\ UNCHANGED << flattenVars, fingerprintVars, searchVars, storeVars, indexableVars >>

\* Logger::log: indexer.index(record), for a record that flattens:
\* Doc::build(doc), self.writers.get_mut(&doc.index())
LogIndex(t, kind) ==
  /\ thread[t] = "index"
  /\ call[LoggerIndexer].pc = "idle"
  /\ calls' = calls + 1
  /\ call' = [call EXCEPT ![LoggerIndexer] =
       [pc |-> IF writers[LoggerIndexer][kind.index] # None THEN "add" ELSE "lock",
        doc |-> Some([id |-> calls + 1, index |-> kind.index,
                      schema |-> kind.schema, score |-> kind.score]),
        hit |-> writers[LoggerIndexer][kind.index] # None,
        writer |-> None,
        ops |-> << >>]]
  /\ UNCHANGED << indexer, thread, logs >>
  /\ UNCHANGED << registry, registryLock, engine, writers, acked, inserted, srch, lookups >>
  /\ UNCHANGED << flattenVars, fingerprintVars, searchVars, indexableVars >>

\* Logger::log: indexer.index(record), for a record that does not flatten:
\* expect("invalid key") or unimplemented!() panics in Doc::build, and the
\* guard is dropped while the thread unwinds
LogUnsupported(t, shape) ==
  /\ thread[t] = "index"
  /\ call[LoggerIndexer].pc = "idle"
  /\ thread' = [thread EXCEPT ![t] = "aborted"]
  /\ indexer' = [holder |-> None, poisoned |-> TRUE]
  /\ UNCHANGED logs
  /\ UNCHANGED << flattenVars, fingerprintVars, searchVars, storeVars, indexableVars >>

\* Logger::log: let _ = indexer.index(record); the guard is dropped
LogReturn(t) ==
  /\ thread[t] = "index"
  /\ call[LoggerIndexer].pc \in { "ok", "err" }
  /\ acked' = IF call[LoggerIndexer].pc = "ok"
              THEN acked \cup { call[LoggerIndexer].doc[1] }
              ELSE acked
  /\ call' = [call EXCEPT ![LoggerIndexer] = IdleCall]
  /\ thread' = [thread EXCEPT ![t] = "idle"]
  /\ indexer' = [indexer EXCEPT !.holder = None]
  /\ UNCHANGED logs
  /\ UNCHANGED << registry, registryLock, engine, writers, calls, inserted, srch, lookups >>
  /\ UNCHANGED << flattenVars, fingerprintVars, searchVars, indexableVars >>

LoggerNext ==
  \/ \E t \in Threads : Log(t)
  \/ \E t \in Threads : LogLock(t)
  \/ \E t \in Threads, kind \in RecordKinds : LogIndex(t, kind)
  \/ \E t \in Threads, shape \in Unsupported : LogUnsupported(t, shape)
  \/ GetWriterLock(LoggerIndexer)
  \/ \E ok \in BOOLEAN : GetWriterExisting(LoggerIndexer, ok)
  \/ \E ok \in BOOLEAN : GetWriterCreate(LoggerIndexer, ok)
  \/ GetWriterInsert(LoggerIndexer)
  \/ AddDoc(LoggerIndexer)
  \/ CommitOk(LoggerIndexer)
  \/ CommitErr(LoggerIndexer)
  \/ \E t \in Threads : LogReturn(t)
  \/ \E query \in Queries, limit \in 1..MaxCalls : Snapshot(query, limit)
  \/ \E f \in Indexes : QueryIndex(f)
  \/ Rendered

\* C21 as stated: index() on a record of unsupported shape returns to
\* Logger::log without a panic, so that no logging thread aborts, the
\* Mutex of the Indexer is never poisoned, and no later Logger::log call
\* fails to take it.
C21_UnsupportedIsAnError ==
  /\ ~indexer.poisoned
  /\ \A t \in Threads : thread[t] \notin { "aborted", "poisoned" }

\* the numbers of the documents whose index() call returned Ok to the Logger
AckedIds == { d.id : d \in acked }

\* the numbers of the documents whose index() call ended in Err
FailedIds ==
  { n \in 1..calls :
      /\ n \notin AckedIds
      /\ ~(/\ call[LoggerIndexer].doc # None
           /\ call[LoggerIndexer].doc[1].id = n
           /\ call[LoggerIndexer].pc # "err") }

\* C26 as stated: a search returns no document whose index() call returned
\* an error, also when a later call for the same fingerprint committed
\* through the same cached writer.
C26_FailedRecordStaysInvisible ==
  srch.pc = "done" =>
    \A k \in 1..Len(srch.result) :
      srch.result[k] # None => srch.result[k][1] \notin FailedIds

\* the registry lock is held only by the get_writer of the thread that
\* holds the guard of the Indexer: the Mutex of the Indexer is taken first
LockOrder ==
  registryLock # None =>
    /\ registryLock = Some(LoggerIndexer)
    /\ indexer.holder # None
    /\ thread[indexer.holder[1]] = "index"
    /\ call[LoggerIndexer].pc \in { "lookup", "insert" }

\* outside get_writer the registry lock is free, on Ok and on Err, and the
\* guard of the Indexer is held by a thread inside Logger::log only
LocksReleased ==
  /\ call[LoggerIndexer].pc \notin { "lookup", "insert" } => registryLock = None
  /\ indexer.holder = None <=> \A t \in Threads : thread[t] # "index"
  /\ indexer.holder # None => thread[indexer.holder[1]] = "index"
  /\ call[LoggerIndexer].pc # "idle" => indexer.holder # None

\* every Logger::log call ends, by returning or by unwinding from a panic,
\* and every search call returns
EveryCallEnds ==
  /\ \A t \in Threads :
       (thread[t] \in { "lock", "index" }) ~> (thread[t] \in { "idle", "aborted", "poisoned" })
  /\ (srch.pc = "visiting") ~> (srch.pc \in { "done", "failed" })

\* no thread waits for a lock for ever
NoDeadlock == [] LockOrder /\ [] LocksReleased /\ EveryCallEnds

\* C27 as stated: the Mutex of the Indexer is taken before the registry
\* lock, the registry lock is released on every path, and every log call
\* and every search call that has started returns.
C27_EveryCallReturns ==
  /\ [] LockOrder
  /\ [] LocksReleased
  /\ \A t \in Threads : (thread[t] = "lock") ~> (thread[t] = "idle")
  /\ (srch.pc = "visiting") ~> (srch.pc \in { "done", "failed" })

(***************************************************************************)
(* Specifications.                                                         *)
(***************************************************************************)
InitFlatten ==
  /\ ser = NewCollector
  /\ panicked = FALSE
  /\ doc = None
  /\ stack = << >>
  /\ nodes = 0
  /\ want = << >>
  /\ plain = TRUE
  /\ fieldsA = << >>
  /\ docA = None
  /\ fieldsB = None
  /\ docB = None
  /\ hits = [id \in Indexes |-> << >>]
  /\ collector = None
  /\ spc = "idle"
  /\ remaining = { }
  /\ current = None
  /\ lookup = { }
  /\ result = << >>
  /\ rendered = << >>
  /\ failed = { }
  /\ offered = << >>
  /\ previous = None
  /\ searches = 0
  /\ registry = [f \in Indexes |-> None]
  /\ registryLock = None
  /\ engine = << >>
  /\ writers = [i \in Indexers |-> [f \in Indexes |-> None]]
  /\ call = [i \in Indexers |-> IdleCall]
  /\ acked = { }
  /\ calls = 0
  /\ inserted = [f \in Indexes |-> << >>]
  /\ srch = IdleSearch
  /\ lookups = 0
  /\ docFields = << >>
  /\ indexable = None
  /\ otherFields = None
  /\ otherIndexable = None
  /\ json = None
  /\ indexer = [holder |-> None, poisoned |-> FALSE]
  /\ thread = [t \in Threads |-> "idle"]
  /\ logs = 0

InitFingerprint ==
  /\ ser = NewCollector
  /\ panicked = FALSE
  /\ doc = None
  /\ stack = << >>
  /\ nodes = 0
  /\ want = << >>
  /\ plain = TRUE
  /\ fieldsA \in FieldLists(FieldsOfA)
  /\ docA = None
  /\ fieldsB = None
  /\ docB = None
  /\ hits = [id \in Indexes |-> << >>]
  /\ collector = None
  /\ spc = "idle"
  /\ remaining = { }
  /\ current = None
  /\ lookup = { }
  /\ result = << >>
  /\ rendered = << >>
  /\ failed = { }
  /\ offered = << >>
  /\ previous = None
  /\ searches = 0
  /\ registry = [f \in Indexes |-> None]
  /\ registryLock = None
  /\ engine = << >>
  /\ writers = [i \in Indexers |-> [f \in Indexes |-> None]]
  /\ call = [i \in Indexers |-> IdleCall]
  /\ acked = { }
  /\ calls = 0
  /\ inserted = [f \in Indexes |-> << >>]
  /\ srch = IdleSearch
  /\ lookups = 0
  /\ docFields = << >>
  /\ indexable = None
  /\ otherFields = None
  /\ otherIndexable = None
  /\ json = None
  /\ indexer = [holder |-> None, poisoned |-> FALSE]
  /\ thread = [t \in Threads |-> "idle"]
  /\ logs = 0

InitSearch ==
  /\ ser = NewCollector
  /\ panicked = FALSE
  /\ doc = None
  /\ stack = << >>
  /\ nodes = 0
  /\ want = << >>
  /\ plain = TRUE
  /\ fieldsA = << >>
  /\ docA = None
  /\ fieldsB = None
  /\ docB = None
  /\ hits \in [Indexes -> ScoreLists]
  /\ collector = None
  /\ spc = "idle"
  /\ remaining = { }
  /\ current = None
  /\ lookup = { }
  /\ result = << >>
  /\ rendered = << >>
  /\ failed = { }
  /\ offered = << >>
  /\ previous = None
  /\ searches = 0
  /\ registry = [f \in Indexes |-> None]
  /\ registryLock = None
  /\ engine = << >>
  /\ writers = [i \in Indexers |-> [f \in Indexes |-> None]]
  /\ call = [i \in Indexers |-> IdleCall]
  /\ acked = { }
  /\ calls = 0
  /\ inserted = [f \in Indexes |-> << >>]
  /\ srch = IdleSearch
  /\ lookups = 0
  /\ docFields = << >>
  /\ indexable = None
  /\ otherFields = None
  /\ otherIndexable = None
  /\ json = None
  /\ indexer = [holder |-> None, poisoned |-> FALSE]
  /\ thread = [t \in Threads |-> "idle"]
  /\ logs = 0

InitStore ==
  /\ ser = NewCollector
  /\ panicked = FALSE
  /\ doc = None
  /\ stack = << >>
  /\ nodes = 0
  /\ want = << >>
  /\ plain = TRUE
  /\ fieldsA = << >>
  /\ docA = None
  /\ fieldsB = None
  /\ docB = None
  /\ hits = [id \in Indexes |-> << >>]
  /\ collector = None
  /\ spc = "idle"
  /\ remaining = { }
  /\ current = None
  /\ lookup = { }
  /\ result = << >>
  /\ rendered = << >>
  /\ failed = { }
  /\ offered = << >>
  /\ previous = None
  /\ searches = 0
  /\ registry = [f \in Indexes |-> None]
  /\ registryLock = None
  /\ engine = << >>
  /\ writers = [i \in Indexers |-> [f \in Indexes |-> None]]
  /\ call = [i \in Indexers |-> IdleCall]
  /\ acked = { }
  /\ calls = 0
  /\ inserted = [f \in Indexes |-> << >>]
  /\ srch = IdleSearch
  /\ lookups = 0
  /\ docFields = << >>
  /\ indexable = None
  /\ otherFields = None
  /\ otherIndexable = None
  /\ json = None
  /\ indexer = [holder |-> None, poisoned |-> FALSE]
  /\ thread = [t \in Threads |-> "idle"]
  /\ logs = 0

InitIndexable ==
  /\ ser = NewCollector
  /\ panicked = FALSE
  /\ doc = None
  /\ stack = << >>
  /\ nodes = 0
  /\ want = << >>
  /\ plain = TRUE
  /\ fieldsA = << >>
  /\ docA = None
  /\ fieldsB = None
  /\ docB = None
  /\ hits = [id \in Indexes |-> << >>]
  /\ collector = None
  /\ spc = "idle"
  /\ remaining = { }
  /\ current = None
  /\ lookup = { }
  /\ result = << >>
  /\ rendered = << >>
  /\ failed = { }
  /\ offered = << >>
  /\ previous = None
  /\ searches = 0
  /\ registry = [f \in Indexes |-> None]
  /\ registryLock = None
  /\ engine = << >>
  /\ writers = [i \in Indexers |-> [f \in Indexes |-> None]]
  /\ call = [i \in Indexers |-> IdleCall]
  /\ acked = { }
  /\ calls = 0
  /\ inserted = [f \in Indexes |-> << >>]
  /\ srch = IdleSearch
  /\ lookups = 0
  /\ docFields \in UNION { [1..n -> Keys \X IndexableValues] : n \in 0..MaxFields }
  /\ indexable = None
  /\ otherFields = None
  /\ otherIndexable = None
  /\ json = None
  /\ indexer = [holder |-> None, poisoned |-> FALSE]
  /\ thread = [t \in Threads |-> "idle"]
  /\ logs = 0

InitLogger ==
  /\ ser = NewCollector
  /\ panicked = FALSE
  /\ doc = None
  /\ stack = << >>
  /\ nodes = 0
  /\ want = << >>
  /\ plain = TRUE
  /\ fieldsA = << >>
  /\ docA = None
  /\ fieldsB = None
  /\ docB = None
  /\ hits = [id \in Indexes |-> << >>]
  /\ collector = None
  /\ spc = "idle"
  /\ remaining = { }
  /\ current = None
  /\ lookup = { }
  /\ result = << >>
  /\ rendered = << >>
  /\ failed = { }
  /\ offered = << >>
  /\ previous = None
  /\ searches = 0
  /\ registry = [f \in Indexes |-> None]
  /\ registryLock = None
  /\ engine = << >>
  /\ writers = [i \in Indexers |-> [f \in Indexes |-> None]]
  /\ call = [i \in Indexers |-> IdleCall]
  /\ acked = { }
  /\ calls = 0
  /\ inserted = [f \in Indexes |-> << >>]
  /\ srch = IdleSearch
  /\ lookups = 0
  /\ docFields = << >>
  /\ indexable = None
  /\ otherFields = None
  /\ otherIndexable = None
  /\ json = None
  /\ indexer = [holder |-> None, poisoned |-> FALSE]
  /\ thread = [t \in Threads |-> "idle"]
  /\ logs = 0

SpecFlatten == InitFlatten /\ [][FlattenNext]_vars

SpecFingerprint == InitFingerprint /\ [][FingerprintNext]_vars

SpecSearch == InitSearch /\ [][SearchNext]_vars

SpecStore == InitStore /\ [][StoreNext]_vars

SpecIndexable == InitIndexable /\ [][IndexableNext]_vars

SpecLogger == InitLogger /\ [][LoggerNext]_vars

\* the threads are scheduled and the engine calls return: every step of a
\* call that has started is taken at last; starting a call is up to the
\* caller
SpecLoggerLive ==
  /\ InitLogger
  /\ [][LoggerNext]_vars
  /\ \A t \in Threads :
       /\ WF_vars(LogLock(t))
       /\ WF_vars(\/ \E kind \in RecordKinds : LogIndex(t, kind)
                  \/ \E shape \in Unsupported : LogUnsupported(t, shape))
       /\ WF_vars(LogReturn(t))
  /\ WF_vars(GetWriterLock(LoggerIndexer))
  /\ WF_vars(\E ok \in BOOLEAN : GetWriterExisting(LoggerIndexer, ok))
  /\ WF_vars(\E ok \in BOOLEAN : GetWriterCreate(LoggerIndexer, ok))
  /\ WF_vars(GetWriterInsert(LoggerIndexer))
  /\ WF_vars(AddDoc(LoggerIndexer))
  /\ WF_vars(CommitOk(LoggerIndexer) \/ CommitErr(LoggerIndexer))
  /\ WF_vars(\E f \in Indexes : QueryIndex(f))
  /\ WF_vars(Rendered)
====
